---- MODULE Spec2Model ----
(***************************************************************************)
(* The four corpus converters (restaurant reviews, SemEval16 ABSA, SST,   *)
(* SOCC) as state machines over one shared SQLite store.  A DataFrame is  *)
(* a sequence of row records (its RangeIndex is the row position, from    *)
(* 0); a string that the code inspects character by character is a        *)
(* sequence of one-character strings.                                     *)
(***************************************************************************)
EXTENDS Integers, Sequences, FiniteSets, TLC

VARIABLES
    script,        \* the converter whose __main__ is running, or "none"
    pc,            \* position in that __main__
    src,           \* the raw source the run reads
    xml_data,      \* the parsed XML (restaurantreviews, semeval16)
    df,            \* dataset_df / semeval_df / sst_df / socc_dataset
    flattened_df,  \* semeval16's flattened_df
    store,         \* the SQLite file: table name -> [exists, rows]
    store0,        \* history: the store as the current run found it
    conns,         \* the connections the current run has opened
    traceback,     \* the call of __main__ whose exception ended the run, or ""
    runs           \* number of runs started against the store

vars == <<script, pc, src, xml_data, df, flattened_df, store, store0, conns, traceback, runs>>

(***************************************************************************)
(* Bounds                                                                  *)
(***************************************************************************)
MaxFiles == 2
MaxReviews == 2
MaxRuns == 2
MaxSentences == 3
MaxOpinions == 2
MaxPhraseLen == 4
MaxTextLen == 4
\* Sentiment values are counted in hundredths: 0..MaxVal is [0, 1].
MaxVal == 100

(***************************************************************************)
(* Generic helpers                                                         *)
(***************************************************************************)
SeqsUpTo(S, n) == UNION {[1..k -> S] : k \in 0..n}

RECURSIVE Flatten(_)
Flatten(ss) == IF ss = <<>> THEN <<>> ELSE Head(ss) \o Flatten(Tail(ss))

RECURSIVE SumSeq(_)
SumSeq(s) == IF s = <<>> THEN 0 ELSE Head(s) + SumSeq(Tail(s))

\* The rows whose key occurs at no earlier row (keep='first').
FirstOccurrences(rows, keys) ==
    LET kept == {i \in 1..Len(rows) : \A j \in 1..(i - 1) : keys[j] # keys[i]}
        RECURSIVE Build(_)
        Build(i) == IF i > Len(rows) THEN <<>>
                    ELSE (IF i \in kept THEN <<rows[i]>> ELSE <<>>) \o Build(i + 1)
    IN  Build(1)

\* A call either returns a value or raises.
Ok(v) == [err |-> FALSE, val |-> v]
Raised == [err |-> TRUE, val |-> <<>>]

\* [f(x) for x in xs] / Pool.map(f, xs): the first exception propagates.
AnyRaised(rs) == \E i \in 1..Len(rs) : rs[i].err
Vals(rs) == [i \in 1..Len(rs) |-> rs[i].val]

\* pd.concat(frames, ignore_index=True): ValueError on an empty list.
pd_concat(frames) == IF frames = <<>> THEN Raised ELSE Ok(Flatten(frames))

(***************************************************************************)
(* The store                                                               *)
(***************************************************************************)
Tables == {"restaurantreviews_reviews", "restaurantreviews_restaurants",
           "semeval16_reviews", "semeval16_opinion_data",
           "sst_phrases", "socc_articles"}

NoTable == [exists |-> FALSE, rows |-> <<>>]
EmptyStore == [t \in Tables |-> NoTable]

\* DataFrame.to_sql writes the RangeIndex as the column "index".
WithIndex(rows) == [i \in 1..Len(rows) |-> [index |-> i - 1, row |-> rows[i]]]

to_sql_append(old, rows) == [exists |-> TRUE, rows |-> old.rows \o rows]

\* DataFrame.to_sql(name, conn, if_exists='replace'): the table is dropped
\* and created again from the frame.
to_sql(old, rows) == [exists |-> TRUE, rows |-> rows]

\* What a to_sql that raises can leave behind: nothing done yet, the old
\* table dropped, or the new table created and its inserts rolled back.
ToSqlFailureLeaves(old) == {old, NoTable, [exists |-> TRUE, rows |-> <<>>]}

ClosedConn(t) == [table |-> t, open |-> FALSE, committed |-> TRUE]
LeakedConn(t) == [table |-> t, open |-> TRUE, committed |-> FALSE]

\* The body shared by every save_* function:
\*   conn = sqlite3.connect(db_path); frame.to_sql(t, conn, if_exists='replace')
\*   conn.commit(); conn.close()
\* connect or to_sql may raise; nothing catches it.
SaveTable(fn, t, rows, nextpc) ==
    \E outcome \in {"ok", "connect_raises", "to_sql_raises"} :
        /\ UNCHANGED <<script, src, xml_data, df, flattened_df, store0, runs>>
        /\ CASE outcome = "ok" ->
                  /\ store' = [store EXCEPT ![t] = to_sql(store[t], rows)]
                  /\ conns' = Append(conns, ClosedConn(t))
                  /\ pc' = nextpc
                  /\ UNCHANGED traceback
             [] outcome = "connect_raises" ->
                  /\ UNCHANGED <<store, conns>>
                  /\ pc' = "failed"
                  /\ traceback' = fn
             [] outcome = "to_sql_raises" ->
                  /\ \E left \in ToSqlFailureLeaves(store[t]) :
                         store' = [store EXCEPT ![t] = left]
                  /\ conns' = Append(conns, LeakedConn(t))
                  /\ pc' = "failed"
                  /\ traceback' = fn

\* A run starts: parameters.json is read, nothing else has happened.
CanStart(limit) ==
    /\ script = "none" \/ pc \in {"done", "failed"}
    /\ runs < limit

StartRun(name, source) ==
    /\ script' = name
    /\ pc' = "start"
    /\ src' = source
    /\ xml_data' = <<>>
    /\ df' = <<>>
    /\ flattened_df' = <<>>
    /\ store0' = store
    /\ conns' = <<>>
    /\ traceback' = ""
    /\ runs' = runs + 1
    /\ UNCHANGED store

\* An unhandled exception in call fn of __main__ ends the process.
Fail(fn) ==
    /\ pc' = "failed"
    /\ traceback' = fn
    /\ UNCHANGED <<script, src, xml_data, df, flattened_df, store, store0, conns, runs>>

Init ==
    /\ script = "none"
    /\ pc = "idle"
    /\ src = <<>>
    /\ xml_data = <<>>
    /\ df = <<>>
    /\ flattened_df = <<>>
    /\ store = EmptyStore
    /\ store0 = EmptyStore
    /\ conns = <<>>
    /\ traceback = ""
    /\ runs = 0

(***************************************************************************)
(* parse_restaurantreviews.py                                              *)
(***************************************************************************)
\* Element.find(tag) finds no such child.
NoElement == "<None>"

RestaurantIds == {"R1", "R2"}
RestaurantNames == {"Cafe", "Diner"}

ReviewFields == {"Body", "Rating", "Pros", "Cons"}
GoodReview == [Body |-> "tasty", Rating |-> "5", Pros |-> "food", Cons |-> "noise"]
ReviewMissing(f) == [GoodReview EXCEPT ![f] = NoElement]

\* One XML file: the root's id attribute, its Name child, its Reviews child.
RestaurantFiles(names, reviews, n) ==
    [id : RestaurantIds, Name : names, Reviews : SeqsUpTo(reviews, n)]

WellFormedReview(r) == \A f \in ReviewFields : r[f] # NoElement
WellFormedData(d) == \A j \in 1..Len(d[1]) : WellFormedReview(d[1][j])

\* _parse_xml_file: root.find('Name').text raises when there is no Name.
_parse_xml_file(f) ==
    IF f.Name = NoElement THEN Raised ELSE Ok(<<f.Reviews, f.id, f.Name>>)

ReviewRow_tolerant(review_data, restaurant_id, restaurant_name) ==
    Ok([review |-> review_data.Body, rating |-> review_data.Rating,
        pro_tags |-> review_data.Pros, con_tags |-> review_data.Cons,
        id |-> restaurant_id, restaurant_name |-> restaurant_name])

\* One review element's row; .text of a missing sub-element raises.
ReviewRow(review_data, restaurant_id, restaurant_name) ==
    IF WellFormedReview(review_data)
    THEN Ok([review |-> review_data.Body, rating |-> review_data.Rating,
             pro_tags |-> review_data.Pros, con_tags |-> review_data.Cons,
             id |-> restaurant_id, restaurant_name |-> restaurant_name])
    ELSE Raised

_extract_review_data_unique(restaurant_data) ==
    LET rs == [j \in 1..Len(restaurant_data[1]) |->
                  ReviewRow(restaurant_data[1][j], restaurant_data[2], restaurant_data[3])]
    IN  IF AnyRaised(rs) THEN Raised ELSE Ok(FirstOccurrences(Vals(rs), Vals(rs)))

\* One row per child of the Reviews container, each with the file's id and name.
_extract_review_data(restaurant_data) ==
    LET rs == [j \in 1..Len(restaurant_data[1]) |->
                  ReviewRow(restaurant_data[1][j], restaurant_data[2], restaurant_data[3])]
    IN  IF AnyRaised(rs) THEN Raised ELSE Ok(Vals(rs))

extract_all_review_data(data) ==
    LET review_data == [i \in 1..Len(data) |-> _extract_review_data(data[i])]
    IN  IF AnyRaised(review_data) THEN Raised ELSE pd_concat(Vals(review_data))

\* df[['review', 'rating', 'pro_tags', 'con_tags', 'id']]
ReviewColumns(rows) ==
    [i \in 1..Len(rows) |->
        [review |-> rows[i].review, rating |-> rows[i].rating,
         pro_tags |-> rows[i].pro_tags, con_tags |-> rows[i].con_tags,
         id |-> rows[i].id]]

\* df[['id', 'restaurant_name']]
RestaurantColumns(rows) ==
    [i \in 1..Len(rows) |-> [id |-> rows[i].id, restaurant_name |-> rows[i].restaurant_name]]

drop_duplicates_all_columns(rows) == FirstOccurrences(rows, rows)

\* DataFrame.drop_duplicates(subset="id", ignore_index=True)
drop_duplicates(rows) == FirstOccurrences(rows, [i \in 1..Len(rows) |-> rows[i].id])

RestStart(files) == StartRun("restaurantreviews", files)

\* dataset_xml = parse_all_xml_files(dataset_path, n_processes, chunksize)
ParseAllXmlFiles ==
    /\ script = "restaurantreviews" /\ pc = "start"
    /\ LET rs == [i \in 1..Len(src) |-> _parse_xml_file(src[i])]
       IN  IF AnyRaised(rs) THEN Fail("parse_all_xml_files")
           ELSE /\ xml_data' = Vals(rs)
                /\ pc' = "parsed"
                /\ UNCHANGED <<script, src, df, flattened_df, store, store0, conns, traceback, runs>>

\* dataset_df = extract_all_review_data(dataset_xml)
ExtractAllReviewData ==
    /\ script = "restaurantreviews" /\ pc = "parsed"
    /\ LET r == extract_all_review_data(xml_data)
       IN  IF r.err THEN Fail("extract_all_review_data")
           ELSE /\ df' = r.val
                /\ pc' = "extracted"
                /\ UNCHANGED <<script, src, xml_data, flattened_df, store, store0, conns, traceback, runs>>

\* save_reviews(dataset_df, db_path)
RestSaveReviews ==
    /\ script = "restaurantreviews" /\ pc = "extracted"
    /\ SaveTable("save_reviews", "restaurantreviews_reviews", WithIndex(ReviewColumns(df)), "saved_reviews")

\* save_restaurants(dataset_df, db_path); print(len(dataset_df))
SaveRestaurants ==
    /\ script = "restaurantreviews" /\ pc = "saved_reviews"
    /\ SaveTable("save_restaurants", "restaurantreviews_restaurants",
                 WithIndex(drop_duplicates(RestaurantColumns(df))), "done")

RestInputs == SeqsUpTo(RestaurantFiles(RestaurantNames, {GoodReview, ReviewMissing("Body")}, MaxReviews), MaxFiles)

NextRest ==
    \/ CanStart(1) /\ \E files \in RestInputs : RestStart(files)
    \/ ParseAllXmlFiles
    \/ ExtractAllReviewData
    \/ RestSaveReviews
    \/ SaveRestaurants

SpecRest == Init /\ [][NextRest]_vars

(***************************************************************************)
(* parse_semeval16.py                                                      *)
(***************************************************************************)
Digits == <<"0", "1", "2", "3", "4", "5", "6", "7", "8", "9">>

\* int(s), as Series.astype(int) applies it: ValueError unless s is a numeral.
int(s) ==
    IF \E d \in 1..Len(Digits) : Digits[d] = s
    THEN Ok((CHOOSE d \in 1..Len(Digits) : Digits[d] = s) - 1)
    ELSE Raised

\* Elements: a sentence is the sequence of its children, <text> first and
\* <Opinions> second when present; an <Opinion> is its attribute dict.
TextElement(t) == [tag |-> "text", text |-> t, children |-> <<>>]
OpinionsElement(ops) == [tag |-> "Opinions", text |-> "", children |-> ops]

\* The j-th <Opinion> of a sentence; bad = "from" / "to" spoils that offset.
OpinionAttrib(j, bad) ==
    [polarity |-> "positive",
     from |-> IF bad = "from" THEN "x" ELSE Digits[j],
     to |-> IF bad = "to" THEN "" ELSE Digits[j + 1]]

\* Opinion lists of up to MaxOpinions children, at most one of them with a
\* non-integer offset.
OpinionLists ==
    UNION {{[j \in 1..k |-> OpinionAttrib(j, "")]} \cup
           {[j \in 1..k |-> OpinionAttrib(j, IF j # b THEN ""
                                              ELSE IF b % 2 = 1 THEN "from" ELSE "to")]
              : b \in 1..k}
           : k \in 0..MaxOpinions}

\* What follows the sentence's <text>: nothing or an <Opinions> container;
\* <<>> is a sentence element with no child at all.
SentenceShapes ==
    {<<>>} \cup {<<"text">>} \cup {<<"text", ops>> : ops \in OpinionLists}

\* The j-th sentence of the file, with a text of its own.
Sentence(j, shape) ==
    IF shape = <<>> THEN <<>>
    ELSE IF Len(shape) = 1 THEN <<TextElement("sentence " \o ToString(j))>>
    ELSE <<TextElement("sentence " \o ToString(j)), OpinionsElement(shape[2])>>

\* The sentences grouped into <Review> elements, a new one after each cut;
\* a <Review> is <<its sentences container>>.
RECURSIVE GroupReviews(_, _, _, _)
GroupReviews(sentences, cuts, first, i) ==
    IF i > Len(sentences) THEN <<>>
    ELSE IF i \in cuts \/ i = Len(sentences)
         THEN <<<<SubSeq(sentences, first, i)>>>> \o GroupReviews(sentences, cuts, i + 1, i + 1)
         ELSE GroupReviews(sentences, cuts, first, i + 1)

\* list(root) of the corpus file: up to n sentences in all.
AbsaFiles(n) ==
    {GroupReviews([j \in 1..Len(shapes) |-> Sentence(j, shapes[j])], cuts, 1, 1) :
        shapes \in SeqsUpTo(SentenceShapes, n), cuts \in SUBSET (1..(n - 1))}

\* pd.DataFrame([a.attrib for a in r[1]]) with 'from' and 'to' cast to int:
\* KeyError when there is no row (hence no column), ValueError on a
\* non-integer.
OpinionFrame(opinions) ==
    LET rs == [k \in 1..Len(opinions) |->
                  IF int(opinions[k].from).err \/ int(opinions[k].to).err THEN Raised
                  ELSE Ok([polarity |-> opinions[k].polarity,
                           from |-> int(opinions[k].from).val,
                           to |-> int(opinions[k].to).val])]
    IN  IF opinions = <<>> \/ AnyRaised(rs) THEN Raised ELSE Ok(Vals(rs))

SkipSentence_few_opinions(r) == Len(r) <= 1 \/ Len(r[2].children) <= 1

\* if len(r) <= 1: continue
SkipSentence(r) == Len(r) <= 1

\* The loop of _extract_data over the sentences of one <Review>.
RECURSIVE _extract_data_rows(_)
_extract_data_rows(sentences) ==
    IF sentences = <<>> THEN Ok(<<>>)
    ELSE LET r == Head(sentences)
             rest == _extract_data_rows(Tail(sentences))
         IN  IF SkipSentence(r) THEN rest
             ELSE LET opinion_df == OpinionFrame(r[2].children)
                  IN  IF opinion_df.err \/ rest.err THEN Raised
                      ELSE Ok(<<[review |-> r[1].text, opinion_data |-> opinion_df.val]>>
                              \o rest.val)

_extract_data(xml_review) == _extract_data_rows(xml_review[1])

\* Pool.map(_extract_data, xml_reviews) keeps the input order.
extract_all_data(xml_reviews) ==
    LET res == [i \in 1..Len(xml_reviews) |-> _extract_data(xml_reviews[i])]
    IN  IF AnyRaised(res) THEN Raised ELSE pd_concat(Vals(res))

\* opinion_data.loc[:, 'review_idx'] = i
TagReviewIdx(opinion_data, i) ==
    [k \in 1..Len(opinion_data) |->
        [polarity |-> opinion_data[k].polarity, from |-> opinion_data[k].from,
         to |-> opinion_data[k].to, review_idx |-> i]]

flatten_dataframe_one_based(frame) ==
    LET tagged == [i \in 1..Len(frame) |->
                      [review |-> frame[i].review,
                       opinion_data |-> TagReviewIdx(frame[i].opinion_data, i)]]
        flat == pd_concat([i \in 1..Len(tagged) |-> tagged[i].opinion_data])
    IN  [err |-> flat.err, df |-> tagged, val |-> flat.val]

\* flatten_dataframe tags the nested frames in place (range starts at 0),
\* then concatenates them; df is the caller's frame afterwards.
flatten_dataframe(frame) ==
    LET tagged == [i \in 1..Len(frame) |->
                      [review |-> frame[i].review,
                       opinion_data |-> TagReviewIdx(frame[i].opinion_data, i - 1)]]
        flat == pd_concat([i \in 1..Len(tagged) |-> tagged[i].opinion_data])
    IN  [err |-> flat.err, df |-> tagged, val |-> flat.val]

\* df[['review']]
ReviewColumn(rows) == [i \in 1..Len(rows) |-> [review |-> rows[i].review]]

AbsaStart(file) == StartRun("semeval16", file)

\* xml_data = parse_xml(dataset_path)
ParseXml ==
    /\ script = "semeval16" /\ pc = "start"
    /\ xml_data' = src
    /\ pc' = "parsed"
    /\ UNCHANGED <<script, src, df, flattened_df, store, store0, conns, traceback, runs>>

\* semeval_df = extract_all_data(xml_data, n_processes, chunksize)
ExtractAllData ==
    /\ script = "semeval16" /\ pc = "parsed"
    /\ LET r == extract_all_data(xml_data)
       IN  IF r.err THEN Fail("extract_all_data")
           ELSE /\ df' = r.val
                /\ pc' = "extracted"
                /\ UNCHANGED <<script, src, xml_data, flattened_df, store, store0, conns, traceback, runs>>

\* flattened_df = flatten_dataframe(semeval_df)
FlattenDataframe ==
    /\ script = "semeval16" /\ pc = "extracted"
    /\ LET r == flatten_dataframe(df)
       IN  IF r.err THEN Fail("flatten_dataframe")
           ELSE /\ df' = r.df
                /\ flattened_df' = r.val
                /\ pc' = "flattened"
                /\ UNCHANGED <<script, src, xml_data, store, store0, conns, traceback, runs>>

\* save_reviews(semeval_df, db_path)
AbsaSaveReviews ==
    /\ script = "semeval16" /\ pc = "flattened"
    /\ SaveTable("save_reviews", "semeval16_reviews", WithIndex(ReviewColumn(df)), "saved_reviews")

\* save_opinion_data(flattened_df, db_path); print(...)
SaveOpinionData ==
    /\ script = "semeval16" /\ pc = "saved_reviews"
    /\ SaveTable("save_opinion_data", "semeval16_opinion_data", WithIndex(flattened_df), "done")

AbsaInputs == AbsaFiles(MaxSentences)

NextAbsa ==
    \/ CanStart(1) /\ \E file \in AbsaInputs : AbsaStart(file)
    \/ ParseXml
    \/ ExtractAllData
    \/ FlattenDataframe
    \/ AbsaSaveReviews
    \/ SaveOpinionData

SpecAbsa == Init /\ [][NextAbsa]_vars

(***************************************************************************)
(* parse_sst.py                                                            *)
(***************************************************************************)
\* Characters, by what the code's regex and str methods do with them:
\*   "a" "i" "_"  word characters, unchanged by lower()
\*   "A"          an upper-case letter, lower() gives "a"
\*   "I-dot"      U+0130, a letter whose lower() is the two characters
\*                "i" and U+0307
\*   "dot-above"  U+0307, a combining mark: neither \w nor \s
\*   ","          punctuation: neither \w nor \s
\*   " " "\t"     whitespace
WordChars == {"a", "i", "_", "A", "I-dot"}
SpaceChars == {" ", "\t"}

\* str.split() / join helpers over character sequences.
RECURSIVE SkipSpaces(_)
SkipSpaces(s) ==
    IF s # <<>> /\ Head(s) \in SpaceChars THEN SkipSpaces(Tail(s)) ELSE s

RECURSIVE FirstWord(_)
FirstWord(s) ==
    IF s = <<>> \/ Head(s) \in SpaceChars THEN <<>> ELSE <<Head(s)>> \o FirstWord(Tail(s))

\* str.split(): the maximal runs of non-whitespace characters.
RECURSIVE split(_)
split(s) ==
    LET t == SkipSpaces(s)
    IN  IF t = <<>> THEN <<>>
        ELSE <<FirstWord(t)>> \o split(SubSeq(t, Len(FirstWord(t)) + 1, Len(t)))

\* ' '.join(words)
RECURSIVE join(_)
join(words) ==
    IF words = <<>> THEN <<>>
    ELSE IF Len(words) = 1 THEN words[1]
    ELSE words[1] \o <<" ">> \o join(Tail(words))

\* str.replace(r'[^\w\s]+', '', regex=True)
StripNonWord(s) == SelectSeq(s, LAMBDA c : c \in WordChars \cup SpaceChars)

\* str.lower(), character by character
LowerChar(c) ==
    CASE c = "A" -> <<"a">>
      [] c = "I-dot" -> <<"i", "dot-above">>
      [] OTHER -> <<c>>

lower(s) == Flatten([k \in 1..Len(s) |-> LowerChar(s[k])])

NormalizePhrase_collapse_first(phrase) == lower(StripNonWord(join(split(phrase))))

\* The two assignments to phrase_data['phrase'].
NormalizePhrase(phrase) == join(split(lower(StripNonWord(phrase))))

\* phrase_data after normalization, phrases of length 0 dropped, inner
\* joined with sentiment_labels on the phrase id.
process_sst_data(data) ==
    LET phrase_data == SelectSeq([k \in 1..Len(data.dictionary) |->
                                     [phrase |-> NormalizePhrase(data.dictionary[k].phrase),
                                      phrase_id |-> data.dictionary[k].phrase_id]],
                                 LAMBDA row : Len(row.phrase) > 0)
        Matches(row) == SelectSeq(data.sentiment_labels,
                                  LAMBDA label : label.phrase_ids = row.phrase_id)
    IN  Flatten([k \in 1..Len(phrase_data) |->
                    [m \in 1..Len(Matches(phrase_data[k])) |->
                        [phrase_id |-> phrase_data[k].phrase_id,
                         phrase |-> phrase_data[k].phrase,
                         sentiment_values |-> Matches(phrase_data[k])[m].sentiment_values]]])

\* The cutoffs 0.4 and 0.6, in hundredths.
NegativeCutoff == 40
PositiveCutoff == 60

calc_sst_sentiment_label_strict(val) ==
    IF val < NegativeCutoff THEN 0
    ELSE IF val < PositiveCutoff THEN 1
    ELSE 2

calc_sst_sentiment_label(val) ==
    IF val <= NegativeCutoff THEN 0
    ELSE IF val <= PositiveCutoff THEN 1
    ELSE 2

calc_sst_sentiment_exists_label(val) ==
    IF val > NegativeCutoff /\ val <= PositiveCutoff THEN 0 ELSE 1

SstStart(data) == StartRun("sst", data)

\* sst_df = process_sst_data(dataset_path)
ProcessSstData ==
    /\ script = "sst" /\ pc = "start"
    /\ df' = process_sst_data(src)
    /\ pc' = "processed"
    /\ UNCHANGED <<script, src, xml_data, flattened_df, store, store0, conns, traceback, runs>>

\* sst_df.loc[:, 'sentiment_three_labels'] = ...apply(calc_sst_sentiment_label)
CalcThreeLabels ==
    /\ script = "sst" /\ pc = "processed"
    /\ df' = [k \in 1..Len(df) |->
                [phrase_id |-> df[k].phrase_id, phrase |-> df[k].phrase,
                 sentiment_values |-> df[k].sentiment_values,
                 sentiment_three_labels |-> calc_sst_sentiment_label(df[k].sentiment_values)]]
    /\ pc' = "three_labels"
    /\ UNCHANGED <<script, src, xml_data, flattened_df, store, store0, conns, traceback, runs>>

\* sst_df.loc[:, 'sentiment_exists_labels'] = ...apply(calc_sst_sentiment_exists_label)
CalcExistsLabels ==
    /\ script = "sst" /\ pc = "three_labels"
    /\ df' = [k \in 1..Len(df) |->
                [phrase_id |-> df[k].phrase_id, phrase |-> df[k].phrase,
                 sentiment_values |-> df[k].sentiment_values,
                 sentiment_three_labels |-> df[k].sentiment_three_labels,
                 sentiment_exists_labels |-> calc_sst_sentiment_exists_label(df[k].sentiment_values)]]
    /\ pc' = "labelled"
    /\ UNCHANGED <<script, src, xml_data, flattened_df, store, store0, conns, traceback, runs>>

\* save_phrases(sst_df, db_path); print(sst_df.shape).  The frame's index
\* is phrase_id, written as that column.
SavePhrases ==
    /\ script = "sst" /\ pc = "labelled"
    /\ SaveTable("save_phrases", "sst_phrases", df, "done")

PhraseAlphabet == {"a", "A", " ", "\t", ",", "I-dot"}
Phrases == SeqsUpTo(PhraseAlphabet, MaxPhraseLen)
SentimentValues == 0..MaxVal

\* dictionary.txt and sentiment_labels.txt with one line each.
SstData(phrase, id, val) ==
    [dictionary |-> <<[phrase |-> phrase, phrase_id |-> 1]>>,
     sentiment_labels |-> <<[phrase_ids |-> id, sentiment_values |-> val]>>]

SstInputs ==
    {SstData(phrase, 1, 50) : phrase \in Phrases}
    \cup {SstData(<<"a">>, id, val) : id \in {1, 2}, val \in SentimentValues}

NextSst ==
    \/ CanStart(1) /\ \E data \in SstInputs : SstStart(data)
    \/ ProcessSstData
    \/ CalcThreeLabels
    \/ CalcExistsLabels
    \/ SavePhrases

SpecSst == Init /\ [][NextSst]_vars

(***************************************************************************)
(* parse_socc.py                                                           *)
(***************************************************************************)
\* string.punctuation (without the backquote, which no text here contains)
Punctuation == {"!", "\"", "#", "$", "%", "&", "'", "(", ")", "*", "+", ",", "-",
                ".", "/", ":", ";", "<", "=", ">", "?", "@", "[", "\\", "]", "^",
                "_", "{", "|", "}", "~"}

IsPrefix(pat, s) == Len(pat) <= Len(s) /\ SubSeq(s, 1, Len(pat)) = pat

\* str.replace(pat, repl): the non-overlapping occurrences, left to right.
RECURSIVE str_replace(_, _, _)
str_replace(s, pat, repl) ==
    IF s = <<>> THEN <<>>
    ELSE IF IsPrefix(pat, s)
         THEN repl \o str_replace(SubSeq(s, Len(pat) + 1, Len(s)), pat, repl)
         ELSE <<Head(s)>> \o str_replace(Tail(s), pat, repl)

\* str.translate(str.maketrans('', '', string.punctuation))
translate(s) == SelectSeq(s, LAMBDA c : c \notin Punctuation)

OpenP == <<"<", "p", ">">>
CloseP == <<"<", "/", "p", ">">>

CleanText_close_first(text) ==
    translate(str_replace(str_replace(text, CloseP, <<" ">>), OpenP, <<>>))

\* The three assignments to text in extract_socc_data.
CleanText(text) ==
    translate(str_replace(str_replace(text, OpenP, <<>>), CloseP, <<" ">>))

\* article_data.loc[:, 'words'] = text
extract_socc_data(article_data) ==
    [k \in 1..Len(article_data) |->
        [article_text |-> article_data[k].article_text,
         words |-> CleanText(article_data[k].article_text)]]

SoccStart(csv) == StartRun("socc", csv)

\* socc_dataset = extract_socc_data(dataset_path)
ExtractSoccData ==
    /\ script = "socc" /\ pc = "start"
    /\ df' = extract_socc_data(src)
    /\ pc' = "extracted"
    /\ UNCHANGED <<script, src, xml_data, flattened_df, store, store0, conns, traceback, runs>>

\* save_texts(socc_dataset, db_path); print(socc_dataset.shape)
SaveTexts ==
    /\ script = "socc" /\ pc = "extracted"
    /\ SaveTable("save_texts", "socc_articles", WithIndex(df), "done")

\* '<p>Hello</p> World!'
HelloWorld == <<"<", "p", ">", "H", "e", "l", "l", "o", "<", "/", "p", ">", " ",
                "W", "o", "r", "l", "d", "!">>
\* '<<p>/p>': deleting the opening marker leaves a closing marker
NestedClose == <<"<", "<", "p", ">", "/", "p", ">">>
\* '<<p>p>': deleting the opening marker leaves an opening marker
NestedOpen == <<"<", "<", "p", ">", "p", ">">>

TextAlphabet == {"<", "p", ">", "/", "a", " ", "!"}
ArticleTexts == SeqsUpTo(TextAlphabet, MaxTextLen) \cup {HelloWorld, NestedClose, NestedOpen}

\* gnm_articles.csv with one article.
SoccInputs == {<<[article_text |-> text]>> : text \in ArticleTexts}

NextSocc ==
    \/ CanStart(1) /\ \E csv \in SoccInputs : SoccStart(csv)
    \/ ExtractSoccData
    \/ SaveTexts

SpecSocc == Init /\ [][NextSocc]_vars

(***************************************************************************)
(* The four converters run one after another against the same store       *)
(***************************************************************************)
\* Review lists of up to MaxReviews elements, at most one of them without
\* one of its four sub-elements.
ReviewLists ==
    UNION {{[j \in 1..k |-> GoodReview]} \cup
           {[j \in 1..k |-> IF j = b THEN ReviewMissing(f) ELSE GoodReview]
              : b \in 1..k, f \in ReviewFields}
           : k \in 0..MaxReviews}

\* No file, or one file that may lack its Name.
FewRestaurantFiles ==
    {<<>>} \cup {<<[id |-> "R1", Name |-> name, Reviews |-> reviews]>> :
                    name \in {"Cafe", NoElement}, reviews \in ReviewLists}

\* An empty corpus, or one <Review> with one sentence.
FewAbsaFiles == {<<>>} \cup {<<<<<<Sentence(1, shape)>>>>>> : shape \in SentenceShapes}

FewSstData ==
    {SstData(phrase, id, val) :
        phrase \in {<<"A", ",", " ", "a">>, <<",">>}, id \in {1, 2}, val \in {40, 41}}

FewArticles == {<<>>, <<[article_text |-> HelloWorld]>>,
                <<[article_text |-> HelloWorld], [article_text |-> NestedOpen]>>}

Next ==
    \/ CanStart(MaxRuns) /\ \E files \in FewRestaurantFiles : RestStart(files)
    \/ CanStart(MaxRuns) /\ \E file \in FewAbsaFiles : AbsaStart(file)
    \/ CanStart(MaxRuns) /\ \E data \in FewSstData : SstStart(data)
    \/ CanStart(MaxRuns) /\ \E csv \in FewArticles : SoccStart(csv)
    \/ ParseAllXmlFiles
    \/ ExtractAllReviewData
    \/ RestSaveReviews
    \/ SaveRestaurants
    \/ ParseXml
    \/ ExtractAllData
    \/ FlattenDataframe
    \/ AbsaSaveReviews
    \/ SaveOpinionData
    \/ ProcessSstData
    \/ CalcThreeLabels
    \/ CalcExistsLabels
    \/ SavePhrases
    \/ ExtractSoccData
    \/ SaveTexts

Spec == Init /\ [][Next]_vars

(***************************************************************************)
(* Claims on the restaurant converter                                      *)
(***************************************************************************)
RestTable == "restaurantreviews_reviews"
RestaurantsTable == "restaurantreviews_restaurants"

ChildCounts(data) == [i \in 1..Len(data) |-> Len(data[i][1])]
RowsBefore(data, i) == SumSeq(SubSeq(ChildCounts(data), 1, i - 1))

\* extract_all_review_data has been called in the current run.
ExtractionCalled ==
    /\ script = "restaurantreviews"
    /\ \/ pc \in {"extracted", "saved_reviews", "done"}
       \/ pc = "failed" /\ traceback \in {"extract_all_review_data", "save_reviews", "save_restaurants"}

OneRowPerChild ==
    /\ traceback # "extract_all_review_data"
    /\ Len(df) = SumSeq(ChildCounts(xml_data))
    /\ \A i \in 1..Len(xml_data) : \A j \in 1..Len(xml_data[i][1]) :
          LET row == df[RowsBefore(xml_data, i) + j]
              child == xml_data[i][1][j]
          IN  /\ row.id = xml_data[i][2]
              /\ row.restaurant_name = xml_data[i][3]
              /\ row.review = child.Body /\ row.rating = child.Rating
              /\ row.pro_tags = child.Pros /\ row.con_tags = child.Cons

AllWellFormed == \A i \in 1..Len(xml_data) : WellFormedData(xml_data[i])

\* C1 as stated: for every list of well-formed per-file inputs,
\* extract_all_review_data returns one row per child review element, in
\* order, each carrying its file's restaurant id and name.
C1_EveryList == (ExtractionCalled /\ AllWellFormed) => OneRowPerChild

\* C1 amended: the same for every non-empty list of well-formed per-file
\* inputs (pd.concat raises ValueError on an empty list of frames).
C1_NonEmptyList ==
    (ExtractionCalled /\ AllWellFormed /\ xml_data # <<>>) => OneRowPerChild

C1_Witness ==
    /\ ExtractionCalled /\ AllWellFormed
    /\ Len(xml_data) = 2 /\ Len(df) = 4
    /\ xml_data[1][2] # xml_data[2][2] /\ xml_data[1][3] # xml_data[2][3]

R1CafeTwoReviews == <<[id |-> "R1", Name |-> "Cafe", Reviews |-> <<GoodReview, GoodReview>>]>>

\* C2: once save_reviews and save_restaurants have both run, the
\* restaurants table has at most one row per identifier and holds every
\* identifier of the reviews table; one file R1/Cafe with two reviews gives
\* two review rows with id R1 and the single restaurant row R1/Cafe.
C2_RestaurantsUniqueAndComplete ==
    (script = "restaurantreviews" /\ pc = "done") =>
        LET reviews == store[RestTable].rows
            restaurants == store[RestaurantsTable].rows
        IN  /\ store[RestTable].exists /\ store[RestaurantsTable].exists
            /\ \A a, b \in 1..Len(restaurants) :
                  restaurants[a].row.id = restaurants[b].row.id => a = b
            /\ \A v \in 1..Len(reviews) : \E r \in 1..Len(restaurants) :
                  restaurants[r].row.id = reviews[v].row.id
            /\ src = R1CafeTwoReviews =>
                  /\ Len(reviews) = 2
                  /\ \A v \in 1..2 : reviews[v].row.id = "R1"
                  /\ restaurants = <<[index |-> 0, row |-> [id |-> "R1", restaurant_name |-> "Cafe"]]>>

C2_Witness ==
    /\ script = "restaurantreviews" /\ pc = "done"
    /\ Len(src) = 2 /\ src[1].id = src[2].id /\ src[1].Name # src[2].Name
    /\ Len(src[1].Reviews) = 2 /\ Len(src[2].Reviews) = 1
    /\ Len(store[RestTable].rows) = 3
    /\ Len(store[RestaurantsTable].rows) = 1

(***************************************************************************)
(* Claims on the aspect (SemEval16) converter                              *)
(***************************************************************************)
AbsaReviewsTable == "semeval16_reviews"
AbsaOpinionTable == "semeval16_opinion_data"

\* Every sentence element of the file, in document order.
InputSentences == Flatten([i \in 1..Len(xml_data) |-> xml_data[i][1]])

HasOpinionsContainer(r) == Len(r) >= 2

\* The sentences with a second child, in document order.
SentencesWithContainer == SelectSeq(InputSentences, HasOpinionsContainer)

\* extract_all_data has returned in the current run.
AbsaExtracted ==
    /\ script = "semeval16"
    /\ \/ pc \in {"extracted", "flattened", "saved_reviews", "done"}
       \/ pc = "failed" /\ traceback \in {"flatten_dataframe", "save_reviews", "save_opinion_data"}

\* flatten_dataframe has returned in the current run.
AbsaFlattened ==
    /\ script = "semeval16"
    /\ \/ pc \in {"flattened", "saved_reviews", "done"}
       \/ pc = "failed" /\ traceback \in {"save_reviews", "save_opinion_data"}

\* C3 as stated: a record whose opinions container has 0 or 1 children is
\* skipped by _extract_data: it gives no row to the extracted reviews and,
\* once the run is done, no row to the reviews table.
C3_FewOpinionsSkipped ==
    AbsaExtracted =>
        \A s \in 1..Len(InputSentences) :
            LET r == InputSentences[s]
            IN  (HasOpinionsContainer(r) /\ Len(r[2].children) <= 1) =>
                    /\ \A i \in 1..Len(df) : df[i].review # r[1].text
                    /\ pc = "done" =>
                         \A i \in 1..Len(store[AbsaReviewsTable].rows) :
                             store[AbsaReviewsTable].rows[i].row.review # r[1].text

\* C3 amended: a sentence element with 0 or 1 children (no opinions
\* container after its text) is skipped and gives no row to either table;
\* every sentence with 2 or more children is retained, whatever the number
\* of children of its opinions container, and gives one reviews row and one
\* opinion row per child of that container.
C3_NoContainerSkipped ==
    /\ AbsaExtracted =>
          /\ Len(df) = Len(SentencesWithContainer)
          /\ \A i \in 1..Len(df) :
                /\ df[i].review = SentencesWithContainer[i][1].text
                /\ Len(df[i].opinion_data) = Len(SentencesWithContainer[i][2].children)
    /\ (script = "semeval16" /\ pc = "done") =>
          /\ Len(store[AbsaReviewsTable].rows) = Len(SentencesWithContainer)
          /\ \A i \in 1..Len(SentencesWithContainer) :
                store[AbsaReviewsTable].rows[i].row.review = SentencesWithContainer[i][1].text
          /\ Len(store[AbsaOpinionTable].rows) =
                SumSeq([i \in 1..Len(SentencesWithContainer) |->
                           Len(SentencesWithContainer[i][2].children)])

\* A run that retained a one-opinion sentence and skipped two without a
\* container.
C3_Witness ==
    /\ script = "semeval16" /\ pc = "done"
    /\ Len(InputSentences) = 3
    /\ Len(SentencesWithContainer) = 1
    /\ Len(SentencesWithContainer[1][2].children) = 1
    /\ \E s \in 1..3 : InputSentences[s] = <<>>
    /\ \E s \in 1..3 : Len(InputSentences[s]) = 1
    /\ Len(store[AbsaReviewsTable].rows) = 1
    /\ Len(store[AbsaOpinionTable].rows) = 1

\* C4: after extract_all_data and flatten_dataframe have succeeded, every
\* opinion row's review_idx is a 0-based position in the retained review
\* sequence, the opinion rows tagged i are exactly the opinions of the i-th
\* retained review (whose persisted index is i), and every position is
\* referenced by at least one opinion row.
C4_ReviewIdxLinksReview ==
    AbsaFlattened =>
        /\ \A k \in 1..Len(flattened_df) : flattened_df[k].review_idx \in 0..(Len(df) - 1)
        /\ \A i \in 1..Len(df) :
              LET mine == SelectSeq(flattened_df, LAMBDA o : o.review_idx = i - 1)
                  source == SentencesWithContainer[i]
              IN  /\ mine # <<>>
                  /\ df[i].review = source[1].text
                  /\ Len(mine) = Len(source[2].children)
                  /\ \A k \in 1..Len(mine) :
                        /\ int(source[2].children[k].from) = Ok(mine[k].from)
                        /\ int(source[2].children[k].to) = Ok(mine[k].to)
        /\ pc = "done" =>
              /\ \A i \in 1..Len(df) :
                    store[AbsaReviewsTable].rows[i] = [index |-> i - 1, row |-> [review |-> df[i].review]]
              /\ store[AbsaOpinionTable].rows = WithIndex(flattened_df)

\* Two reviews from different <Review> elements with a skipped sentence
\* between them, the second with two opinions.
C4_Witness ==
    /\ script = "semeval16" /\ pc = "done"
    /\ Len(xml_data) = 2 /\ Len(InputSentences) = 3
    /\ Len(InputSentences[2]) <= 1
    /\ Len(df) = 2 /\ Len(flattened_df) = 3
    /\ flattened_df[1].review_idx = 0
    /\ flattened_df[2].review_idx = 1 /\ flattened_df[3].review_idx = 1

(***************************************************************************)
(* Claims on the sentiment-treebank converter                              *)
(***************************************************************************)
\* C5: for every sentiment value v in [0, 1], the boundaries included, the
\* three-way label is 0 when v <= 0.4, 1 when 0.4 < v <= 0.6 and 2 when
\* v > 0.6; the exists-label is 0 when 0.4 < v <= 0.6 and 1 otherwise, so
\* it is 0 exactly when the three-way label is 1.
C5_LabelsFollowCutoffs ==
    (script = "sst" /\ pc \in {"labelled", "done"}) =>
        \A k \in 1..Len(df) :
            LET v == df[k].sentiment_values
                three == df[k].sentiment_three_labels
                exists == df[k].sentiment_exists_labels
            IN  /\ (three = 0) = (v <= 40)
                /\ (three = 1) = (40 < v /\ v <= 60)
                /\ (three = 2) = (v > 60)
                /\ (exists = 0) = (40 < v /\ v <= 60)
                /\ (exists = 1) = ~(40 < v /\ v <= 60)
                /\ (exists = 0) = (three = 1)

\* The value 0.4 itself, labelled.
C5_Witness ==
    /\ script = "sst" /\ pc = "labelled"
    /\ Len(df) = 1
    /\ df[1].sentiment_values = 40
    /\ df[1].sentiment_three_labels = 0
    /\ df[1].sentiment_exists_labels = 1

\* process_sst_data has returned in the current run.
SstProcessed == script = "sst" /\ pc \in {"processed", "three_labels", "labelled", "done", "failed"}

\* The dictionary line a row of sst_df came from.
SourcePhrase(row) ==
    src.dictionary[CHOOSE k \in 1..Len(src.dictionary) :
                      src.dictionary[k].phrase_id = row.phrase_id].phrase

\* C6 as stated: for every input phrase, normalizing the normalized phrase
\* again yields the same string.
C6_Idempotent ==
    SstProcessed => \A k \in 1..Len(df) : NormalizePhrase(df[k].phrase) = df[k].phrase

\* C6 amended: normalization is idempotent on every phrase that holds no
\* character whose lower-case form has a character that is neither a word
\* character nor whitespace (U+0130, whose lower-case form ends in the
\* combining mark U+0307).
C6_IdempotentWithoutIDot ==
    SstProcessed =>
        \A k \in 1..Len(df) :
            (\A c \in 1..Len(SourcePhrase(df[k])) : SourcePhrase(df[k])[c] # "I-dot")
                => NormalizePhrase(df[k].phrase) = df[k].phrase

\* A phrase that lost punctuation, case and a run of whitespace.
C6_Witness ==
    /\ script = "sst" /\ pc = "processed"
    /\ src.dictionary[1].phrase = <<",", "A", " ", "\t">>
    /\ Len(df) = 1
    /\ df[1].phrase = <<"a">>

(***************************************************************************)
(* Claims on the article converter                                         *)
(***************************************************************************)
Occurrences(s, c) == Len(SelectSeq(s, LAMBDA x : x = c))

\* C7: 'words' holds the article text with every '<p>' deleted, then every
\* '</p>' replaced by one space, then every punctuation character deleted:
\* it has no punctuation character, keeps the other characters in order
\* (a "p" only outside the markers), 'article_text' stays beside it
\* unchanged, and '<p>Hello</p> World!' gives 'Hello  World'.
C7_WordsCleaned ==
    (script = "socc" /\ pc \in {"extracted", "done"}) =>
        /\ Len(df) = Len(src)
        /\ \A k \in 1..Len(df) :
              LET text == src[k].article_text
                  words == df[k].words
                  opened == str_replace(text, OpenP, <<>>)
              IN  /\ df[k].article_text = text
                  /\ \A c \in 1..Len(words) : words[c] \notin Punctuation
                  /\ SelectSeq(words, LAMBDA x : x \notin {"p", " "})
                       = SelectSeq(text, LAMBDA x : x \notin Punctuation \cup {"p", " "})
                  /\ Occurrences(words, "p") =
                       Occurrences(text, "p") - (Len(text) - Len(opened)) \div 3
                         - (Len(opened) - Len(str_replace(opened, CloseP, <<>>))) \div 4
                  /\ Occurrences(words, " ") =
                       Occurrences(text, " ")
                         + (Len(opened) - Len(str_replace(opened, CloseP, <<>>))) \div 4
                  /\ text = HelloWorld =>
                       words = <<"H", "e", "l", "l", "o", " ", " ", "W", "o", "r", "l", "d">>
                  /\ text = NestedClose => words = <<" ">>
                  /\ text = NestedOpen => words = <<"p">>

C7_Witness ==
    /\ script = "socc" /\ pc = "extracted"
    /\ df[1].article_text = HelloWorld
    /\ df[1].words = <<"H", "e", "l", "l", "o", " ", " ", "W", "o", "r", "l", "d">>

(***************************************************************************)
(* Claims on runs and the store                                            *)
(***************************************************************************)
ExtractionCalls == {"parse_all_xml_files", "extract_all_review_data",
                    "extract_all_data", "flatten_dataframe"}
SaveCalls == {"save_reviews", "save_restaurants", "save_opinion_data",
              "save_phrases", "save_texts"}

IsInteger(s) == \E d \in 1..Len(Digits) : Digits[d] = s

\* The source of the current run holds a review without one of its four
\* sub-elements, or an opinion with a non-integer from/to offset.
HasMalformedRecord ==
    \/ /\ script = "restaurantreviews"
       /\ \E i \in 1..Len(src) : \E j \in 1..Len(src[i].Reviews) :
             ~WellFormedReview(src[i].Reviews[j])
    \/ /\ script = "semeval16"
       /\ \E i \in 1..Len(src) : \E j \in 1..Len(src[i][1]) :
             /\ Len(src[i][1][j]) >= 2
             /\ \E k \in 1..Len(src[i][1][j][2].children) :
                   LET a == src[i][1][j][2].children[k]
                   IN  ~IsInteger(a.from) \/ ~IsInteger(a.to)

RunHasWritten == conns # <<>> \/ store # store0

\* C8: when extraction fails on a malformed or incomplete record the run
\* ends before any save starts: it opens no connection and leaves every
\* table as it found it; a run touches the store only once all its
\* extraction and flattening has returned.
C8_NoWriteUnlessExtracted ==
    /\ (pc = "failed" /\ traceback \in ExtractionCalls) => ~RunHasWritten
    /\ HasMalformedRecord =>
          /\ ~RunHasWritten
          /\ pc \in {"start", "parsed", "failed"}
          /\ pc = "failed" => traceback \in ExtractionCalls
    /\ RunHasWritten =>
          \/ pc \in {"saved_reviews", "done"}
          \/ pc = "failed" /\ traceback \in SaveCalls

\* A second run that failed on a review without a Body, over the tables an
\* earlier run wrote.
C8_Witness ==
    /\ script = "restaurantreviews" /\ runs = 2
    /\ pc = "failed" /\ traceback = "extract_all_review_data"
    /\ Len(src) = 1
    /\ \E j \in 1..Len(src[1].Reviews) : src[1].Reviews[j].Body = NoElement
    /\ Len(store["restaurantreviews_reviews"].rows) = 2
    /\ Len(store["restaurantreviews_restaurants"].rows) = 1

\* C9: when the process exits, on any path, every connection a save
\* operation opened has been committed and closed.
C9_ConnectionsReleased ==
    pc \in {"done", "failed"} =>
        \A c \in 1..Len(conns) : ~conns[c].open /\ conns[c].committed

TablesOf(name) ==
    CASE name = "restaurantreviews" -> {"restaurantreviews_reviews", "restaurantreviews_restaurants"}
      [] name = "semeval16" -> {"semeval16_reviews", "semeval16_opinion_data"}
      [] name = "sst" -> {"sst_phrases"}
      [] name = "socc" -> {"socc_articles"}
      [] OTHER -> {}

Table(rows) == [exists |-> TRUE, rows |-> rows]

\* C10: after a successful run each table the converter writes holds
\* exactly the rows of that run, whatever the table held before, and every
\* other table still holds what the last run that wrote it left.
C10_TableIsLastWrite ==
    pc = "done" =>
        /\ script = "restaurantreviews" =>
              /\ store["restaurantreviews_reviews"] = Table(WithIndex(ReviewColumns(df)))
              /\ \A i \in 1..Len(store["restaurantreviews_restaurants"].rows) :
                    LET r == store["restaurantreviews_restaurants"].rows[i]
                    IN  /\ r.index = i - 1
                        /\ \E k \in 1..Len(df) : r.row = [id |-> df[k].id,
                                                           restaurant_name |-> df[k].restaurant_name]
              /\ Len(store["restaurantreviews_restaurants"].rows)
                    = Cardinality({df[k].id : k \in 1..Len(df)})
        /\ script = "semeval16" =>
              /\ store["semeval16_reviews"] = Table(WithIndex(ReviewColumn(df)))
              /\ store["semeval16_opinion_data"] = Table(WithIndex(flattened_df))
        /\ script = "sst" => store["sst_phrases"] = Table(df)
        /\ script = "socc" => store["socc_articles"] = Table(WithIndex(df))
        /\ \A t \in Tables \ TablesOf(script) : store[t] = store0[t]

\* A second article run that replaced a two-row table by a one-row table.
C10_Witness ==
    /\ script = "socc" /\ pc = "done" /\ runs = 2
    /\ Len(store0["socc_articles"].rows) = 2
    /\ Len(df) = 1
    /\ Len(store["socc_articles"].rows) = 1

====
